---- MODULE Spec2Model ----
(***************************************************************************)
(* A model of rhttp's client construction (rust/src/api/client.rs):        *)
(* the settings model, create_client's pipeline over the reqwest builder,  *)
(* the StaticResolver, and the RequestClient handle with its cancellation  *)
(* token.                                                                  *)
(*                                                                         *)
(* Encodings.  Option<T> is a sequence of length at most one (None is      *)
(* <<>>, Some(x) is <<x>>).  A Rust String that the code parses is a       *)
(* sequence of one-character strings; a hostname, which the code only      *)
(* passes on, is a TLA+ string.  Result<T, E> is a record with ok, and     *)
(* val or err.  An error message is a sequence of strings, the text that   *)
(* format! joins, an address literal in it character by character.         *)
(* A usize is a sequence of four 16-bit limbs, most significant    *)
(* first, because it is wider than the integers of the model checker.      *)
(***************************************************************************)
EXTENDS Integers, Sequences, FiniteSets, TLC

VARIABLES settings, order, clients, tokens, last

vars == <<settings, order, clients, tokens, last>>

----------------------------------------------------------------------------
(* Option, Result *)

None == <<>>

Some(x) == <<x>>

IsSome(o) == Len(o) = 1

Unwrap(o) == o[1]

Ok(v) == [ok |-> TRUE, val |-> v]

Err(e) == [ok |-> FALSE, err |-> e]

----------------------------------------------------------------------------
(* Text *)

\* The port appended to every address literal (let dummy_port = "1111").
dummy_port == <<"1", "1", "1", "1">>

\* format!("{ip}:{dummy_port}")
WithPort(ip) == ip \o <<":">> \o dummy_port

\* A limb of a number too wide for one integer of the model.
Limb == 2 ^ 16

----------------------------------------------------------------------------
(* SocketAddr::from_str, as core::net::parser reads a socket address: an   *)
(* IPv4 address and a port, or else a bracketed IPv6 address, with an      *)
(* optional scope id, and a port.  A parser position is an index into the  *)
(* text; a reader yields None, or Some of its value and the position after *)
(* what it read (read_atomically: a reader that fails has read nothing).   *)
(* A number wider than 16 bits is a pair of 16-bit limbs <<high, low>>.    *)

\* char::to_digit(radix): the digit's value, -1 for a char that is no digit.
to_digit(c, radix) ==
    LET v == CASE c = "0" -> 0 [] c = "1" -> 1 [] c = "2" -> 2 [] c = "3" -> 3
               [] c = "4" -> 4 [] c = "5" -> 5 [] c = "6" -> 6 [] c = "7" -> 7
               [] c = "8" -> 8 [] c = "9" -> 9
               [] c \in {"a", "A"} -> 10 [] c \in {"b", "B"} -> 11
               [] c \in {"c", "C"} -> 12 [] c \in {"d", "D"} -> 13
               [] c \in {"e", "E"} -> 14 [] c \in {"f", "F"} -> 15
               [] OTHER -> -1
    IN  IF v < radix THEN v ELSE -1

\* The run of digits of s from position pos on: how many there are.
RECURSIVE DigitRun(_, _, _)
DigitRun(s, pos, radix) ==
    IF pos <= Len(s) /\ to_digit(s[pos], radix) >= 0
    THEN 1 + DigitRun(s, pos + 1, radix)
    ELSE 0

\* The value of the n digits of s from pos on, accumulated left to right in
\* two limbs (result * radix + digit); <<-1, -1>> once it no longer fits in
\* `bits` bits (checked_mul / checked_add failing).
RECURSIVE DigitsValue(_, _, _, _, _, _)
DigitsValue(s, pos, n, acc, radix, bits) ==
    LET Step(low) ==
            LET Carried(high) ==
                    IF \/ high >= Limb
                       \/ (bits <= 16 /\ (high > 0 \/ low >= 2 ^ bits))
                    THEN <<-1, -1>>
                    ELSE DigitsValue(s, pos + 1, n - 1, <<high, low % Limb>>,
                                     radix, bits)
            IN  Carried(acc[1] * radix + (low \div Limb))
    IN  IF n = 0 THEN acc
        ELSE Step(acc[2] * radix + to_digit(s[pos], radix))

\* Parser::read_number(radix, max_digits, allow_zero_prefix) into an unsigned
\* type of `bits` bits; max_digits = 0 stands for None.  The value is an
\* integer for a type of at most 16 bits and a pair of limbs for u32.
read_number(s, pos, radix, max_digits, allow_zero_prefix, bits) ==
    LET has_leading_zero == pos <= Len(s) /\ s[pos] = "0"
        Counted(n) ==
            LET Valued(v) ==
                    IF v[1] < 0 THEN None
                    ELSE Some([val |-> IF bits <= 16 THEN v[2] ELSE v,
                               pos |-> pos + n])
            IN  IF n = 0 THEN None
                ELSE IF max_digits > 0 /\ n > max_digits THEN None
                ELSE IF ~allow_zero_prefix /\ has_leading_zero /\ n > 1
                THEN None
                ELSE Valued(DigitsValue(s, pos, n, <<0, 0>>, radix, bits))
    IN  Counted(DigitRun(s, pos, radix))

\* Parser::read_given_char
read_given_char(s, pos, c) ==
    IF pos <= Len(s) /\ s[pos] = c THEN Some(pos + 1) ELSE None

\* Parser::read_ipv4_addr: four groups, each after the first led by '.'.
RECURSIVE read_ipv4_groups(_, _, _, _)
read_ipv4_groups(s, pos, i, acc) ==
    LET Group(g) ==
            IF ~IsSome(g) THEN None
            ELSE read_ipv4_groups(s, Unwrap(g).pos, i + 1,
                                  Append(acc, Unwrap(g).val))
        Separated(sep) ==
            IF ~IsSome(sep) THEN None
            ELSE Group(read_number(s, Unwrap(sep), 10, 3, FALSE, 8))
    IN  IF i = 4 THEN Some([val |-> acc, pos |-> pos])
        ELSE Separated(IF i = 0 THEN Some(pos)
                       ELSE read_given_char(s, pos, "."))

read_ipv4_addr(s, pos) == read_ipv4_groups(s, pos, 0, <<>>)

\* read_groups of Parser::read_ipv6_addr: up to `limit` groups of at most
\* four hexadecimal digits, each after the first led by ':', the last two
\* possibly an embedded IPv4 address.  It tells how many groups were read,
\* whether an IPv4 address ended them, the groups, and the position.
RECURSIVE read_groups(_, _, _, _, _)
read_groups(s, pos, limit, i, acc) ==
    LET Separator == IF i = 0 THEN Some(pos) ELSE read_given_char(s, pos, ":")
        Hex(group) ==
            IF ~IsSome(group)
            THEN [size |-> i, ipv4 |-> FALSE, groups |-> acc, pos |-> pos]
            ELSE read_groups(s, Unwrap(group).pos, limit, i + 1,
                             Append(acc, Unwrap(group).val))
        Embedded(v4) ==
            IF IsSome(v4)
            THEN [size |-> i + 2, ipv4 |-> TRUE,
                  groups |-> acc \o <<Unwrap(v4).val[1] * 256 + Unwrap(v4).val[2],
                                      Unwrap(v4).val[3] * 256 + Unwrap(v4).val[4]>>,
                  pos |-> Unwrap(v4).pos]
            ELSE Hex(IF ~IsSome(Separator) THEN None
                     ELSE read_number(s, Unwrap(Separator), 16, 4, TRUE, 16))
    IN  IF i = limit
        THEN [size |-> limit, ipv4 |-> FALSE, groups |-> acc, pos |-> pos]
        ELSE Embedded(IF i < limit - 1 /\ IsSome(Separator)
                      THEN read_ipv4_addr(s, Unwrap(Separator))
                      ELSE None)

\* Parser::read_ipv6_addr: eight groups, or a head and a tail around "::",
\* which stands for the groups of zeros that fill the address.
read_ipv6_addr(s, pos) ==
    LET Zeros(n) == [k \in 1 .. n |-> 0]
        Front(head) ==
            LET Back(tail) ==
                    Some([val |-> head.groups
                                    \o Zeros(8 - head.size - tail.size)
                                    \o tail.groups,
                          pos |-> tail.pos])
                Second(colon) ==
                    IF ~IsSome(colon) THEN None
                    ELSE Back(read_groups(s, Unwrap(colon),
                                          8 - (head.size + 1), 0, <<>>))
                First(colon) ==
                    IF ~IsSome(colon) THEN None
                    ELSE Second(read_given_char(s, Unwrap(colon), ":"))
            IN  IF head.size = 8
                THEN Some([val |-> head.groups, pos |-> head.pos])
                ELSE IF head.ipv4 THEN None
                ELSE First(read_given_char(s, head.pos, ":"))
    IN  Front(read_groups(s, pos, 8, 0, <<>>))

\* Parser::read_port
read_port(s, pos) ==
    LET Number(colon) ==
            IF ~IsSome(colon) THEN None
            ELSE read_number(s, Unwrap(colon), 10, 0, TRUE, 16)
    IN  Number(read_given_char(s, pos, ":"))

\* Parser::read_scope_id: '%' and a u32.
read_scope_id(s, pos) ==
    LET Number(percent) ==
            IF ~IsSome(percent) THEN None
            ELSE read_number(s, Unwrap(percent), 10, 0, TRUE, 32)
    IN  Number(read_given_char(s, pos, "%"))

\* Parser::read_socket_addr_v4
read_socket_addr_v4(s) ==
    LET New(ip, port) ==
            IF ~IsSome(port) THEN None
            ELSE Some([val |-> [ip |-> ip, port |-> Unwrap(port).val],
                       pos |-> Unwrap(port).pos])
        Port(ip) ==
            IF ~IsSome(ip) THEN None
            ELSE New(Unwrap(ip).val, read_port(s, Unwrap(ip).pos))
    IN  Port(read_ipv4_addr(s, 1))

\* Parser::read_socket_addr_v6: '[', the address, the scope id or 0, ']',
\* the port; SocketAddrV6::new(ip, port, 0, scope_id).
read_socket_addr_v6(s) ==
    LET New(ip, scope_id, port) ==
            IF ~IsSome(port) THEN None
            ELSE Some([val |-> [ip |-> ip, port |-> Unwrap(port).val,
                                flowinfo |-> 0, scope_id |-> scope_id],
                       pos |-> Unwrap(port).pos])
        Closed(ip, scope_id, bracket) ==
            IF ~IsSome(bracket) THEN None
            ELSE New(ip, scope_id, read_port(s, Unwrap(bracket)))
        Scoped(ip, pos, scope) ==
            IF IsSome(scope)
            THEN Closed(ip, Unwrap(scope).val,
                        read_given_char(s, Unwrap(scope).pos, "]"))
            ELSE Closed(ip, <<0, 0>>, read_given_char(s, pos, "]"))
        Address(ip) ==
            IF ~IsSome(ip) THEN None
            ELSE Scoped(Unwrap(ip).val, Unwrap(ip).pos,
                        read_scope_id(s, Unwrap(ip).pos))
        Opened(bracket) ==
            IF ~IsSome(bracket) THEN None
            ELSE Address(read_ipv6_addr(s, Unwrap(bracket)))
    IN  Opened(read_given_char(s, 1, "["))

\* Parser::read_socket_addr: the IPv4 reading, or else the IPv6 one.
read_socket_addr(s) ==
    LET OrElse(v4) == IF IsSome(v4) THEN v4 ELSE read_socket_addr_v6(s)
    IN  OrElse(read_socket_addr_v4(s))

\* <AddrParseError as Display>::fmt and its derived Debug, for AddrKind::Socket.
AddrParseErrorDisplay == "invalid socket address syntax"

AddrParseErrorDebug == "AddrParseError(Socket)"

\* SocketAddr::from_str: parse_with demands that the whole input is read.
SocketAddr_from_str(s) ==
    LET Whole(r) ==
            IF IsSome(r) /\ Unwrap(r).pos = Len(s) + 1
            THEN Ok(Unwrap(r).val)
            ELSE Err("Socket")
    IN  Whole(read_socket_addr(s))

----------------------------------------------------------------------------
(* Durations.  A chrono::Duration is whole seconds (signed) and a          *)
(* nanosecond part in 0 .. 999,999,999; a std Duration is the same with    *)
(* the seconds unsigned.                                                   *)

Dur(secs, nanos) == [secs |-> secs, nanos |-> nanos]

OutOfRangeErrorDisplay ==
    "Source duration value is out of range for the target type"

\* chrono::Duration::to_std: a negative duration is out of range.
to_std(d) == IF d.secs < 0 THEN Err(OutOfRangeErrorDisplay) ELSE Ok(d)

\* std::time::Duration::as_millis: whole milliseconds, the rest dropped.
as_millis(d) == d.secs * 1000 + (d.nanos \div 1000000)

----------------------------------------------------------------------------
(* `max_redirects as usize` on a 64-bit target: the i32 is sign-extended   *)
(* to 64 bits and those bits are read as unsigned.                         *)

as_usize(n) ==
    LET hi == IF n < 0 THEN Limb - 1 ELSE 0
    IN  <<hi, hi, (n \div Limb) % Limb, n % Limb>>

----------------------------------------------------------------------------
(* PEM.  A byte buffer of PEM text is the sequence of the section labels   *)
(* in it; bytes that belong to no section ("\n", junk) are kept as they    *)
(* are and the parsers skip them.                                          *)

HasSection(pem, label) == \E i \in 1 .. Len(pem) : pem[i] = label

\* reqwest::Certificate::from_pem
Certificate_from_pem(pem) ==
    IF HasSection(pem, "CERTIFICATE") THEN Ok(pem) ELSE Err("InvalidCertificate")

\* [certificate, "\n", private_key].concat()
identity_bytes(cc) == cc.certificate \o <<"\n">> \o cc.private_key

\* reqwest::Identity::from_pem: a certificate and a private key are needed.
Identity_from_pem(pem) ==
    IF HasSection(pem, "CERTIFICATE") /\ HasSection(pem, "PRIVATE KEY")
    THEN Ok(pem)
    ELSE Err("InvalidIdentity")

----------------------------------------------------------------------------
(* reqwest::ClientBuilder.  Every method records its name in calls, the    *)
(* order in which the pipeline drove the builder.                          *)

NoOverrides == [h \in {} |-> <<>>]

\* reqwest::Client::builder()
Client_builder ==
    [calls |-> <<>>,
     proxy |-> "auto",
     redirect |-> None,
     timeout |-> None,
     connect_timeout |-> None,
     tcp_keepalive |-> None,
     http2_keep_alive_while_idle |-> FALSE,
     http2_keep_alive_timeout |-> None,
     http2_keep_alive_interval |-> None,
     tls_built_in_root_certs |-> TRUE,
     root_certificates |-> <<>>,
     danger_accept_invalid_certs |-> FALSE,
     identity |-> None,
     min_tls_version |-> None,
     max_tls_version |-> None,
     http_version |-> "negotiate",
     dns_resolver |-> None,
     dns_overrides |-> NoOverrides]

Called(b, name) == [b EXCEPT !.calls = Append(@, name)]

no_proxy(b) == [Called(b, "no_proxy") EXCEPT !.proxy = "none"]

\* reqwest::redirect::Policy::none()
Policy_none == [kind |-> "none", max |-> as_usize(0)]

\* reqwest::redirect::Policy::limited(max)
Policy_limited(max) == [kind |-> "limited", max |-> max]

redirect(b, policy) == [Called(b, "redirect") EXCEPT !.redirect = Some(policy)]

timeout(b, d) == [Called(b, "timeout") EXCEPT !.timeout = Some(d)]

connect_timeout(b, d) ==
    [Called(b, "connect_timeout") EXCEPT !.connect_timeout = Some(d)]

tcp_keepalive(b, d) ==
    [Called(b, "tcp_keepalive") EXCEPT !.tcp_keepalive = Some(d)]

http2_keep_alive_while_idle(b, enabled) ==
    [Called(b, "http2_keep_alive_while_idle")
        EXCEPT !.http2_keep_alive_while_idle = enabled]

http2_keep_alive_timeout(b, d) ==
    [Called(b, "http2_keep_alive_timeout")
        EXCEPT !.http2_keep_alive_timeout = Some(d)]

http2_keep_alive_interval(b, d) ==
    [Called(b, "http2_keep_alive_interval")
        EXCEPT !.http2_keep_alive_interval = Some(d)]

tls_built_in_root_certs(b, enabled) ==
    [Called(b, "tls_built_in_root_certs")
        EXCEPT !.tls_built_in_root_certs = enabled]

add_root_certificate(b, cert) ==
    [Called(b, "add_root_certificate")
        EXCEPT !.root_certificates = Append(@, cert)]

danger_accept_invalid_certs(b, accept) ==
    [Called(b, "danger_accept_invalid_certs")
        EXCEPT !.danger_accept_invalid_certs = accept]

identity(b, id) == [Called(b, "identity") EXCEPT !.identity = Some(id)]

\* TlsVersion::Tls1_2 => tls::Version::TLS_1_2, Tls1_3 => TLS_1_3
tls_version(v) == IF v = "Tls1_2" THEN 12 ELSE 13

min_tls_version(b, v) ==
    [Called(b, "min_tls_version") EXCEPT !.min_tls_version = Some(v)]

max_tls_version(b, v) ==
    [Called(b, "max_tls_version") EXCEPT !.max_tls_version = Some(v)]

http1_only(b) == [Called(b, "http1_only") EXCEPT !.http_version = "http1_only"]

http2_prior_knowledge(b) ==
    [Called(b, "http2_prior_knowledge")
        EXCEPT !.http_version = "http2_prior_knowledge"]

http3_prior_knowledge(b) ==
    [Called(b, "http3_prior_knowledge")
        EXCEPT !.http_version = "http3_prior_knowledge"]

\* Arc::new(StaticResolver { address })
StaticResolver(address) == [address |-> address]

dns_resolver(b, resolver) ==
    [Called(b, "dns_resolver") EXCEPT !.dns_resolver = Some(resolver)]

resolve_to_addrs(b, hostname, addrs) ==
    [Called(b, "resolve_to_addrs")
        EXCEPT !.dns_overrides =
            [h \in DOMAIN @ \cup {hostname} |->
                IF h = hostname THEN addrs ELSE @[h]]]

\* ClientBuilder::build: the engine's own validation.  It rejects version
\* bounds that leave no TLS version (the case the design names).
build(b) ==
    IF /\ IsSome(b.min_tls_version)
       /\ IsSome(b.max_tls_version)
       /\ Unwrap(b.min_tls_version) > Unwrap(b.max_tls_version)
    THEN Err("reqwest::Error { kind: Builder }")
    ELSE Ok(b)

----------------------------------------------------------------------------
(* create_client.  The pipeline state st is the builder so far, the log of *)
(* the derived values converted so far (one entry per to_std, from_pem or  *)
(* from_str, with whether it succeeded), and, once a `?` or a `return Err` *)
(* has left the function, ok = FALSE and the error message.  A step on a   *)
(* pipeline state that has already left the function does nothing.         *)

Start == [ok |-> TRUE, b |-> Client_builder, log |-> <<>>, err |-> <<>>]

With(st, b) == [st EXCEPT !.b = b]

Fail(st, msg) == [st EXCEPT !.ok = FALSE, !.err = msg]

Entry(what, host, idx, lit, ok) ==
    [what |-> what, host |-> host, idx |-> idx, lit |-> lit, ok |-> ok]

Logged(st, what, host, idx, lit, ok) ==
    [st EXCEPT !.log = Append(@, Entry(what, host, idx, lit, ok))]

\* if let Some(proxy_settings) = settings.proxy_settings { ... }
proxy_group(st, s) ==
    IF ~st.ok \/ ~IsSome(s.proxy_settings) THEN st
    ELSE With(st, no_proxy(st.b))

\* if let Some(redirect_settings) = settings.redirect_settings { ... }
redirect_group(st, s) ==
    IF ~st.ok \/ ~IsSome(s.redirect_settings) THEN st
    ELSE LET r == Unwrap(s.redirect_settings)
         IN  IF r.kind = "NoRedirect"
             THEN With(st, redirect(st.b, Policy_none))
             ELSE With(st, redirect(st.b, Policy_limited(as_usize(r.n))))

\* .to_std().map_err(|e| RhttpError::RhttpUnknownError(e.to_string()))?
\* for the duration named what: the pipeline state after it, logged.
Converted(st, what, d) ==
    LET Done(r) ==
            IF r.ok THEN Logged(st, what, "", 0, <<>>, TRUE)
            ELSE Fail(Logged(st, what, "", 0, <<>>, FALSE), <<r.err>>)
    IN  Done(to_std(d))

apply_timeout(st, ts) ==
    LET Set(c) ==
            IF ~c.ok THEN c ELSE With(c, timeout(c.b, Unwrap(ts.timeout)))
    IN  IF ~st.ok \/ ~IsSome(ts.timeout) THEN st
        ELSE Set(Converted(st, "timeout", Unwrap(ts.timeout)))

apply_connect_timeout(st, ts) ==
    LET Set(c) ==
            IF ~c.ok THEN c
            ELSE With(c, connect_timeout(c.b, Unwrap(ts.connect_timeout)))
    IN  IF ~st.ok \/ ~IsSome(ts.connect_timeout) THEN st
        ELSE Set(Converted(st, "connect_timeout", Unwrap(ts.connect_timeout)))

\* The guard of the three keep-alive effects.
keep_alive_enabled(d) == as_millis(d) > 0

apply_keep_alive_timeout(st, ts) ==
    LET Set(c, d) ==
            IF ~c.ok THEN c
            ELSE IF keep_alive_enabled(d)
            THEN With(c, http2_keep_alive_timeout(
                           http2_keep_alive_while_idle(
                             tcp_keepalive(c.b, d), TRUE), d))
            ELSE c
    IN  IF ~st.ok \/ ~IsSome(ts.keep_alive_timeout) THEN st
        ELSE Set(Converted(st, "keep_alive_timeout",
                           Unwrap(ts.keep_alive_timeout)),
                 Unwrap(ts.keep_alive_timeout))

apply_keep_alive_ping(st, ts) ==
    LET Set(c) ==
            IF ~c.ok THEN c
            ELSE With(c, http2_keep_alive_interval(c.b,
                                                   Unwrap(ts.keep_alive_ping)))
    IN  IF ~st.ok \/ ~IsSome(ts.keep_alive_ping) THEN st
        ELSE Set(Converted(st, "keep_alive_ping", Unwrap(ts.keep_alive_ping)))

\* if let Some(timeout_settings) = settings.timeout_settings { ... }
timeout_group(st, s) ==
    IF ~st.ok \/ ~IsSome(s.timeout_settings) THEN st
    ELSE LET ts == Unwrap(s.timeout_settings)
         IN  apply_keep_alive_ping(
               apply_keep_alive_timeout(
                 apply_connect_timeout(
                   apply_timeout(st, ts), ts), ts), ts)

\* for cert in tls_settings.trusted_root_certificates { ... ? }
RECURSIVE add_root_certificates(_, _, _)
add_root_certificates(st, certs, i) ==
    LET Add(r, lg) ==
            IF ~r.ok
            THEN Fail(lg, <<"Error adding trusted certificate: ", r.err>>)
            ELSE add_root_certificates(
                   With(lg, add_root_certificate(lg.b, r.val)), certs, i + 1)
        Parsed(r) ==
            Add(r, Logged(st, "trusted_root_certificate", "", i, <<>>, r.ok))
    IN  IF ~st.ok \/ i > Len(certs) THEN st
        ELSE Parsed(Certificate_from_pem(certs[i]))

apply_trust_root(st, tls) ==
    IF ~st.ok \/ tls.trust_root_certificates THEN st
    ELSE With(st, tls_built_in_root_certs(st.b, FALSE))

apply_verify(st, tls) ==
    IF ~st.ok \/ tls.verify_certificates THEN st
    ELSE With(st, danger_accept_invalid_certs(st.b, TRUE))

apply_client_certificate(st, tls) ==
    LET Set(r, lg) ==
            IF ~r.ok THEN Fail(lg, <<r.err>>)
            ELSE With(lg, identity(lg.b, r.val))
        Parsed(r) ==
            Set(r, Logged(st, "client_certificate", "", 0, <<>>, r.ok))
    IN  IF ~st.ok \/ ~IsSome(tls.client_certificate) THEN st
        ELSE Parsed(Identity_from_pem(
                      identity_bytes(Unwrap(tls.client_certificate))))

apply_min_tls_version(st, tls) ==
    IF ~st.ok \/ ~IsSome(tls.min_tls_version) THEN st
    ELSE With(st, min_tls_version(st.b,
                                  tls_version(Unwrap(tls.min_tls_version))))

apply_max_tls_version(st, tls) ==
    IF ~st.ok \/ ~IsSome(tls.max_tls_version) THEN st
    ELSE With(st, max_tls_version(st.b,
                                  tls_version(Unwrap(tls.max_tls_version))))

\* if let Some(tls_settings) = settings.tls_settings { ... }
tls_group(st, s) ==
    IF ~st.ok \/ ~IsSome(s.tls_settings) THEN st
    ELSE LET tls == Unwrap(s.tls_settings)
         IN  apply_max_tls_version(
               apply_min_tls_version(
                 apply_client_certificate(
                   apply_verify(
                     add_root_certificates(
                       apply_trust_root(st, tls),
                       tls.trusted_root_certificates, 1), tls), tls), tls), tls)

\* client = match settings.http_version_pref { ... }
http_version_group(st, s) ==
    IF ~st.ok THEN st
    ELSE LET v == s.http_version_pref
         IN  IF v \in {"Http10", "Http11"} THEN With(st, http1_only(st.b))
             ELSE IF v = "Http2" THEN With(st, http2_prior_knowledge(st.b))
             ELSE IF v = "Http3" THEN With(st, http3_prior_knowledge(st.b))
             ELSE st

\* if let Some(fallback) = dns_settings.fallback { ... ? }
apply_fallback(st, dns) ==
    LET Set(r, lg) ==
            IF ~r.ok THEN Fail(lg, <<AddrParseErrorDebug>>)
            ELSE With(lg, dns_resolver(lg.b, StaticResolver(r.val)))
        Parsed(r) ==
            Set(r, Logged(st, "fallback", "", 0, Unwrap(dns.fallback), r.ok))
    IN  IF ~st.ok \/ ~IsSome(dns.fallback) THEN st
        ELSE Parsed(SocketAddr_from_str(WithPort(Unwrap(dns.fallback))))

\* format!("Invalid IP address: {}. {}", ip.to_string(), e.to_string())
invalid_ip_message(ip) ==
    <<"Invalid IP address: ">> \o ip \o <<". ", AddrParseErrorDisplay>>

\* ip.into_iter().map(|ip| from_str(..).map_err(|e| { error = Some(..); .. }))
\*   .filter_map(Result::ok).collect(): collect drives the iterator to its
\* end, the closure assigns error at every address that fails, and the
\* addresses that parsed are kept.  acc is [st, addrs, error].
RECURSIVE parse_addresses(_, _, _, _)
parse_addresses(acc, hostname, ips, i) ==
    LET Mapped(r, lg) ==
            IF r.ok
            THEN [acc EXCEPT !.st = lg, !.addrs = Append(@, r.val)]
            ELSE [acc EXCEPT !.st = lg,
                             !.error = Some(invalid_ip_message(ips[i]))]
        Parsed(r) ==
            Mapped(r, Logged(acc.st, "override", hostname, i, ips[i], r.ok))
    IN  IF i > Len(ips) THEN acc
        ELSE parse_addresses(Parsed(SocketAddr_from_str(WithPort(ips[i]))),
                             hostname, ips, i + 1)

\* A variant of apply_override that never looks at `error`: the addresses
\* that parsed are installed.
apply_override_keep_valid(st, hostname, ips) ==
    LET Collected(p) ==
            With(p.st, resolve_to_addrs(p.st.b, hostname, p.addrs))
    IN  Collected(parse_addresses(
                    [st |-> st, addrs |-> <<>>, error |-> None],
                    hostname, ips, 1))

\* The body of `for dns_override in dns_settings.overrides`.
apply_override(st, hostname, ips) ==
    LET Collected(p) ==
            IF IsSome(p.error) THEN Fail(p.st, Unwrap(p.error))
            ELSE With(p.st, resolve_to_addrs(p.st.b, hostname, p.addrs))
    IN  Collected(parse_addresses(
                    [st |-> st, addrs |-> <<>>, error |-> None],
                    hostname, ips, 1))

\* for dns_override in dns_settings.overrides: ord is the order in which the
\* HashMap hands out its entries.
RECURSIVE apply_overrides(_, _, _, _)
apply_overrides(st, overrides, ord, k) ==
    IF ~st.ok \/ k > Len(ord) THEN st
    ELSE apply_overrides(apply_override(st, ord[k], overrides[ord[k]]),
                         overrides, ord, k + 1)

\* A variant of dns_group that installs the fallback and no override.
dns_group_fallback_only(st, s, ord) ==
    IF ~st.ok \/ ~IsSome(s.dns_settings) THEN st
    ELSE apply_fallback(st, Unwrap(s.dns_settings))

\* if let Some(dns_settings) = settings.dns_settings { ... }
dns_group(st, s, ord) ==
    IF ~st.ok \/ ~IsSome(s.dns_settings) THEN st
    ELSE LET dns == Unwrap(s.dns_settings)
         IN  apply_overrides(apply_fallback(st, dns), dns.overrides, ord, 1)

\* client.build().map_err(|e| RhttpError::RhttpUnknownError(format!("{e:?}")))?
build_group(st) ==
    LET Built(r) == IF r.ok THEN st ELSE Fail(st, <<r.err>>)
    IN  IF ~st.ok THEN st ELSE Built(build(st.b))

\* A variant of configure that forces the HTTP version after the DNS group.
configure_version_last(s, ord) ==
    build_group(
      http_version_group(
        dns_group(
          tls_group(
            timeout_group(
              redirect_group(
                proxy_group(Start, s), s), s), s), s, ord), s))

\* The block that computes `client`: the groups in the order of the source.
configure(s, ord) ==
    build_group(
      dns_group(
        http_version_group(
          tls_group(
            timeout_group(
              redirect_group(
                proxy_group(Start, s), s), s), s), s), s, ord))

\* CancellationToken::new(): a fresh live token on the heap of tokens.
CancellationToken_new(heap) == Len(heap) + 1

\* A variant of RequestClient that takes the flag of the default settings.
RequestClient_throwing(client, s, heap) ==
    [client |-> client,
     http_version_pref |-> s.http_version_pref,
     throw_on_status_code |-> TRUE,
     cancel_token |-> CancellationToken_new(heap)]

\* Ok(RequestClient { client, http_version_pref, throw_on_status_code,
\*                     cancel_token: CancellationToken::new() })
RequestClient(client, s, heap) ==
    [client |-> client,
     http_version_pref |-> s.http_version_pref,
     throw_on_status_code |-> s.throw_on_status_code,
     cancel_token |-> CancellationToken_new(heap)]

\* create_client(settings), the overrides iterated in the order ord, with
\* heap the tokens that exist.  calls and log tell what the run did.
create_client(s, ord, heap) ==
    LET Return(st) ==
            IF ~st.ok
            THEN [ok |-> FALSE, client |-> None, err |-> st.err,
                  calls |-> st.b.calls, log |-> st.log, heap |-> heap]
            ELSE [ok |-> TRUE,
                  client |-> Some(RequestClient(st.b, s, heap)),
                  err |-> <<>>,
                  calls |-> st.b.calls, log |-> st.log,
                  heap |-> Append(heap, FALSE)]
    IN  Return(configure(s, ord))

----------------------------------------------------------------------------
(* Name resolution through a built client. *)

\* A variant of resolve that answers only for the names it knows.
StaticResolver_resolve_known(self, name) ==
    IF name \in {"a.test", "b.test"} THEN Ok(<<self.address>>) ELSE Ok(<<>>)

\* <StaticResolver as Resolve>::resolve(&self, _: Name)
StaticResolver_resolve(self, name) == Ok(<<self.address>>)

\* The engine's lookup for a client built from builder b: an override bound
\* to the hostname answers, else the resolver installed by dns_resolver,
\* else the system resolver, whose answer is not the pipeline's.
engine_resolve(b, name) ==
    IF name \in DOMAIN b.dns_overrides
    THEN [ok |-> TRUE, addrs |-> b.dns_overrides[name], via |-> "override"]
    ELSE IF IsSome(b.dns_resolver)
    THEN [ok |-> StaticResolver_resolve(Unwrap(b.dns_resolver), name).ok,
          addrs |-> StaticResolver_resolve(Unwrap(b.dns_resolver), name).val,
          via |-> "resolver"]
    ELSE [ok |-> TRUE, addrs |-> <<>>, via |-> "system"]

----------------------------------------------------------------------------
(* The inputs. *)

\* The longest address list of an override, the most trusted root
\* certificates, and the most RequestClient handles alive at once.
MaxAddrs == 2

MaxCerts == 2

MaxHandles == 3

SeqsUpTo(S, n) == UNION {[1 .. k -> S] : k \in 0 .. n}

\* The orders in which a HashMap with the keys D may hand out its entries.
Orders(D) ==
    {q \in [1 .. Cardinality(D) -> D] :
        \A i, j \in 1 .. Cardinality(D) : i # j => q[i] # q[j]}

HttpVersionPref == {"Http10", "Http11", "Http2", "Http3", "All"}

\* The range of the i32 of RedirectSettings::LimitedRedirects(i32).
I32Max == 2147483647

I32Min == -I32Max - 1

NoRedirect == [kind |-> "NoRedirect", n |-> 0]

LimitedRedirects(n) == [kind |-> "LimitedRedirects", n |-> n]

RedirectInputs ==
    {None, Some(NoRedirect)}
        \cup {Some(LimitedRedirects(n)) : n \in {I32Min, -1, 0, 5, I32Max}}

\* -1 s, 0, 500 microseconds, 1 ms, 30 s
DNeg == Dur(-1, 0)

DZero == Dur(0, 0)

DSubMs == Dur(0, 500000)

DOneMs == Dur(0, 1000000)

DSec == Dur(30, 0)

TimeoutSettings ==
    [timeout : {None, Some(DNeg), Some(DSec)},
     connect_timeout : {None, Some(DNeg)},
     keep_alive_timeout : {None, Some(DNeg), Some(DZero), Some(DSubMs),
                           Some(DOneMs), Some(DSec)},
     keep_alive_ping : {None, Some(DNeg), Some(DSec)}]

NoTimeouts ==
    [timeout |-> None, connect_timeout |-> None,
     keep_alive_timeout |-> None, keep_alive_ping |-> None]

PemCert == <<"CERTIFICATE">>

PemKey == <<"PRIVATE KEY">>

PemJunk == <<"junk">>

ClientCertificates ==
    {[certificate |-> PemCert, private_key |-> PemKey],
     [certificate |-> PemCert, private_key |-> PemJunk],
     [certificate |-> PemJunk, private_key |-> PemKey]}

TlsVersions == {"Tls1_2", "Tls1_3"}

TlsSettings ==
    [trust_root_certificates : BOOLEAN,
     trusted_root_certificates : SeqsUpTo({PemCert, PemJunk}, MaxCerts),
     verify_certificates : BOOLEAN,
     client_certificate : {None} \cup {Some(c) : c \in ClientCertificates},
     min_tls_version : {None} \cup {Some(v) : v \in TlsVersions},
     max_tls_version : {None} \cup {Some(v) : v \in TlsVersions}]

\* TLS settings with every certificate field empty.
TlsNoCertificates ==
    {t \in TlsSettings : /\ t.trusted_root_certificates = <<>>
                         /\ t.client_certificate = None}

TlsFew ==
    {[trust_root_certificates |-> FALSE,
      trusted_root_certificates |-> <<PemCert>>,
      verify_certificates |-> TRUE,
      client_certificate |-> None,
      min_tls_version |-> None,
      max_tls_version |-> None],
     [trust_root_certificates |-> TRUE,
      trusted_root_certificates |-> <<PemJunk>>,
      verify_certificates |-> TRUE,
      client_certificate |-> None,
      min_tls_version |-> None,
      max_tls_version |-> None]}

\* "9.9.9.9", "10.0.0.1", "10.0.0.2", "not-an-ip", "::1", "1.2.3.4:80",
\* "[::1]", "[::ffff:1.2.3.4]", "[fe80::1%3]"
Lit9 == <<"9", ".", "9", ".", "9", ".", "9">>

LitA == <<"1", "0", ".", "0", ".", "0", ".", "1">>

LitB == <<"1", "0", ".", "0", ".", "0", ".", "2">>

LitBad == <<"n", "o", "t", "-", "a", "n", "-", "i", "p">>

LitV6 == <<":", ":", "1">>

LitPort == <<"1", ".", "2", ".", "3", ".", "4", ":", "8", "0">>

LitV6Socket == <<"[", ":", ":", "1", "]">>

LitV6Mapped == <<"[", ":", ":", "f", "f", "f", "f", ":",
                 "1", ".", "2", ".", "3", ".", "4", "]">>

LitV6Scoped == <<"[", "f", "e", "8", "0", ":", ":", "1", "%", "3", "]">>

Hostnames == {"a.test", "b.test"}

\* The hostnames looked up: the overridden ones and one that never is.
Names == Hostnames \cup {"other.test"}

OverrideMaps(lits) ==
    UNION {[D -> SeqsUpTo(lits, MaxAddrs)] : D \in SUBSET Hostnames}

DnsSettings ==
    [overrides : OverrideMaps({LitA, LitBad, LitV6}),
     fallback : {None, Some(Lit9), Some(LitB), Some(LitBad)}]
      \cup [overrides : OverrideMaps({LitA, LitV6, LitV6Socket}),
            fallback : {None, Some(LitV6Socket)}]

DnsFew ==
    {[overrides |-> NoOverrides, fallback |-> Some(LitB)],
     [overrides |-> [h \in {"a.test"} |-> <<LitA, LitPort>>],
      fallback |-> None],
     [overrides |-> [h \in {"a.test"} |-> <<LitV6Mapped, LitV6Scoped>>],
      fallback |-> Some(LitV6Mapped)]}

ClientSettings(versions, throws, proxies, redirects, timeouts, tlss, dnss) ==
    [http_version_pref : versions,
     timeout_settings : timeouts,
     throw_on_status_code : throws,
     proxy_settings : proxies,
     redirect_settings : redirects,
     tls_settings : tlss,
     dns_settings : dnss]

\* <ClientSettings as Default>::default()
ClientSettings_default ==
    [http_version_pref |-> "All",
     timeout_settings |-> None,
     throw_on_status_code |-> TRUE,
     proxy_settings |-> None,
     redirect_settings |-> None,
     tls_settings |-> None,
     dns_settings |-> None]

\* Settings with no TLS and no DNS group: every version, flag, proxy,
\* redirect and timeout input.
PlainSettings ==
    ClientSettings(HttpVersionPref, BOOLEAN, {None, Some("NoProxy")},
                   RedirectInputs,
                   {None} \cup {Some(t) : t \in TimeoutSettings},
                   {None}, {None})

FewTimeouts ==
    {None,
     Some([NoTimeouts EXCEPT !.keep_alive_timeout = Some(DSec)]),
     Some([NoTimeouts EXCEPT !.keep_alive_ping = Some(DNeg)])}

\* Every TLS input, with few of the others.
TlsVariedSettings ==
    ClientSettings({"All", "Http2"}, {TRUE}, {None}, {None, Some(NoRedirect)},
                   FewTimeouts,
                   {Some(t) : t \in TlsSettings},
                   {None} \cup {Some(d) : d \in DnsFew})

\* Every DNS input, with few of the others.
DnsVariedSettings ==
    ClientSettings({"All", "Http3"}, {FALSE}, {Some("NoProxy")}, {None},
                   FewTimeouts,
                   {None} \cup {Some(t) : t \in TlsFew},
                   {Some(d) : d \in DnsSettings})

PipelineSettings == PlainSettings \cup TlsVariedSettings \cup DnsVariedSettings

\* The keys of the overrides map of settings s.
OverrideHosts(s) ==
    IF IsSome(s.dns_settings) THEN DOMAIN Unwrap(s.dns_settings).overrides
    ELSE {}

----------------------------------------------------------------------------
(* The state.  settings and order are the argument of the create_client    *)
(* call in hand and the order in which its overrides map iterates; clients *)
(* are the RequestClient handles alive; tokens[t] tells whether token t is *)
(* cancelled; last is what the last operation did and returned.            *)

Outcome(op, ok, err, calls, log, handle, name, addrs, via) ==
    [op |-> op, ok |-> ok, err |-> err, calls |-> calls, log |-> log,
     handle |-> handle, name |-> name, addrs |-> addrs, via |-> via]

Idle == Outcome("init", TRUE, <<>>, <<>>, <<>>, 0, "", <<>>, "")

\* The effect of `create_client(s)` on the state.
Created(s, ord) ==
    LET Returned(r) ==
            /\ settings' = s
            /\ order' = ord
            /\ clients' = IF r.ok THEN Append(clients, Unwrap(r.client))
                          ELSE clients
            /\ tokens' = r.heap
            /\ last' = Outcome("create", r.ok, r.err, r.calls, r.log,
                               IF r.ok THEN Len(clients) + 1 ELSE 0,
                               "", <<>>, "")
    IN  Returned(create_client(s, ord, tokens))

\* RequestClient::new(settings), on the settings drawn at the start.
Create ==
    /\ last.op = "init"
    /\ Created(settings, order)

\* The settings the handles of the life-cycle specification are built from.
LifecycleSettings ==
    {ClientSettings_default,
     [ClientSettings_default EXCEPT
        !.http_version_pref = "Http2",
        !.throw_on_status_code = FALSE,
        !.dns_settings = Some([overrides |-> NoOverrides,
                               fallback |-> Some(Lit9)])],
     [ClientSettings_default EXCEPT
        !.dns_settings = Some([overrides |-> [h \in {"a.test"} |-> <<LitA>>],
                               fallback |-> Some(LitB)])],
     [ClientSettings_default EXCEPT
        !.dns_settings = Some([overrides |-> [h \in {"a.test"} |-> <<LitBad>>],
                               fallback |-> None])]}

\* RequestClient::new(settings), for any of the life-cycle settings.
New ==
    /\ Len(clients) < MaxHandles
    /\ \E s \in LifecycleSettings :
         \E ord \in Orders(OverrideHosts(s)) : Created(s, ord)

\* RequestClient::new_default(): create_client(ClientSettings::default()).unwrap()
NewDefault ==
    /\ Len(clients) < MaxHandles
    /\ Created(ClientSettings_default, <<>>)

\* A variant of clone whose copy holds a token of its own.
clone_own_token(rc) ==
    [client |-> rc.client,
     http_version_pref |-> rc.http_version_pref,
     throw_on_status_code |-> rc.throw_on_status_code,
     cancel_token |-> rc.cancel_token + 1]

\* <RequestClient as Clone>::clone (derived): every field is cloned; the
\* clone of a CancellationToken is a handle to the same token.
clone(rc) ==
    [client |-> rc.client,
     http_version_pref |-> rc.http_version_pref,
     throw_on_status_code |-> rc.throw_on_status_code,
     cancel_token |-> rc.cancel_token]

Clone ==
    /\ Len(clients) < MaxHandles
    /\ \E h \in 1 .. Len(clients) :
         /\ clients' = Append(clients, clone(clients[h]))
         /\ last' = Outcome("clone", TRUE, <<>>, <<>>, <<>>, h, "", <<>>, "")
    /\ UNCHANGED <<settings, order, tokens>>

\* CancellationToken::cancel through handle rc: the token becomes cancelled
\* and stays so; on a cancelled token nothing changes.
cancel(heap, rc) == [heap EXCEPT ![rc.cancel_token] = TRUE]

\* CancellationToken::is_cancelled through handle rc.
is_cancelled(heap, rc) == heap[rc.cancel_token]

Cancel ==
    \E h \in 1 .. Len(clients) :
        /\ tokens' = cancel(tokens, clients[h])
        /\ last' = Outcome("cancel", TRUE, <<>>, <<>>, <<>>, h, "", <<>>, "")
        /\ UNCHANGED <<settings, order, clients>>

\* A request through handle h has the engine resolve a hostname.
Resolve ==
    \E h \in 1 .. Len(clients) : \E name \in Names :
        LET Resolved(r) ==
                /\ last' = Outcome("resolve", r.ok, <<>>, <<>>, <<>>, h, name,
                                   r.addrs, r.via)
                /\ UNCHANGED <<settings, order, clients, tokens>>
        IN  Resolved(engine_resolve(clients[h].client, name))

----------------------------------------------------------------------------
(* Specifications. *)

\* The life cycle of handles: clients are built, cloned, cancelled and used.
Init ==
    /\ settings = ClientSettings_default
    /\ order = <<>>
    /\ clients = <<>>
    /\ tokens = <<>>
    /\ last = Idle

Next == New \/ NewDefault \/ Clone \/ Cancel \/ Resolve

Spec == Init /\ [][Next]_vars

\* One create_client call on any settings, and lookups through its client.
InitCreate ==
    /\ settings \in PipelineSettings
    /\ order \in Orders(OverrideHosts(settings))
    /\ clients = <<>>
    /\ tokens = <<>>
    /\ last = Idle

NextCreate == Create \/ Resolve

SpecCreate == InitCreate /\ [][NextCreate]_vars

----------------------------------------------------------------------------
(* The properties.  Those of create_client are stated of SpecCreate, where *)
(* settings is the argument of the one call and last, once last.op is no   *)
(* longer "init", tells what the call did.                                 *)

\* The literals of the inputs that are IPv4 addresses or bracketed IPv6
\* addresses, and the socket address each stands for once the dummy port is
\* added.
ValidLiterals ==
    {Lit9, LitA, LitB, LitV6Socket, LitV6Mapped, LitV6Scoped}

Expected(lit) ==
    CASE lit = Lit9 -> [ip |-> <<9, 9, 9, 9>>, port |-> 1111]
      [] lit = LitA -> [ip |-> <<10, 0, 0, 1>>, port |-> 1111]
      [] lit = LitB -> [ip |-> <<10, 0, 0, 2>>, port |-> 1111]
      [] lit = LitV6Socket ->
             [ip |-> <<0, 0, 0, 0, 0, 0, 0, 1>>, port |-> 1111,
              flowinfo |-> 0, scope_id |-> <<0, 0>>]
      [] lit = LitV6Mapped ->
             [ip |-> <<0, 0, 0, 0, 0, 65535, 258, 772>>, port |-> 1111,
              flowinfo |-> 0, scope_id |-> <<0, 0>>]
      [] lit = LitV6Scoped ->
             [ip |-> <<65152, 0, 0, 0, 0, 0, 0, 1>>, port |-> 1111,
              flowinfo |-> 0, scope_id |-> <<0, 3>>]

Dns == Unwrap(settings.dns_settings)

HasFallback == IsSome(settings.dns_settings) /\ IsSome(Dns.fallback)

HasInvalidOverride ==
    \E h \in OverrideHosts(settings) :
        \E i \in 1 .. Len(Dns.overrides[h]) :
            Dns.overrides[h][i] \notin ValidLiterals

\* C1: once create_client has run on settings in which some override list
\* holds an address that does not parse, it has returned an error, there is
\* no RequestClient and no token; and no client ever holds an override with
\* fewer addresses than its list in the settings.
C1_InvalidOverrideAborts ==
    /\ (last.op # "init" /\ HasInvalidOverride) =>
         /\ last.op = "create"
         /\ ~last.ok
         /\ last.err # <<>>
         /\ clients = <<>>
         /\ tokens = <<>>
    /\ \A c \in 1 .. Len(clients) :
         \A h \in DOMAIN clients[c].client.dns_overrides :
            /\ h \in OverrideHosts(settings)
            /\ Len(clients[c].client.dns_overrides[h]) = Len(Dns.overrides[h])

\* C1's case: the invalid address comes after a valid one in its list, and
\* the fallback resolver was already installed when the call failed.
C1_Witness ==
    /\ last.op = "create"
    /\ ~last.ok
    /\ HasFallback
    /\ Dns.fallback = Some(Lit9)
    /\ "a.test" \in OverrideHosts(settings)
    /\ Dns.overrides["a.test"] = <<LitA, LitBad>>
    /\ \E i \in 1 .. Len(last.calls) : last.calls[i] = "dns_resolver"
    /\ clients = <<>>

\* The builder b with its fallback resolver installed again, that is, after
\* every override.
FallbackLast(b) ==
    dns_resolver([b EXCEPT !.dns_resolver = None], Unwrap(b.dns_resolver))

\* C2: through a client built with a fallback F, a lookup of an overridden
\* hostname yields exactly the addresses of its override and a lookup of
\* any other hostname yields F, in whatever order the overrides were
\* installed and also were the fallback installed after them.
C2_OverrideBeatsFallback ==
    (last.op = "resolve" /\ HasFallback) =>
        /\ last.ok
        /\ last.addrs =
             IF last.name \in OverrideHosts(settings)
             THEN [i \in 1 .. Len(Dns.overrides[last.name]) |->
                      Expected(Dns.overrides[last.name][i])]
             ELSE <<Expected(Unwrap(Dns.fallback))>>
        /\ \A n \in Names :
             engine_resolve(FallbackLast(clients[last.handle].client), n).addrs
               = engine_resolve(clients[last.handle].client, n).addrs

\* C2's case: a.test -> 10.0.0.1 with the fallback 10.0.0.2, and a.test is
\* looked up.
C2_Witness ==
    /\ last.op = "resolve"
    /\ HasFallback
    /\ Dns.fallback = Some(LitB)
    /\ OverrideHosts(settings) = {"a.test"}
    /\ Dns.overrides["a.test"] = <<LitA>>
    /\ last.name = "a.test"
    /\ last.addrs = <<[ip |-> <<10, 0, 0, 1>>, port |-> 1111]>>

\* C6: a static resolver answers every hostname with exactly its address and
\* without an error; through a client built with a fallback and no override,
\* every lookup yields the fallback address.
C6_FallbackResolvesEveryName ==
    /\ (last.op = "resolve" /\ HasFallback /\ OverrideHosts(settings) = {}) =>
         /\ last.ok
         /\ last.via = "resolver"
         /\ last.addrs = <<Expected(Unwrap(Dns.fallback))>>
    /\ \A c \in 1 .. Len(clients) :
         IsSome(clients[c].client.dns_resolver) =>
            \A n \in Names :
               StaticResolver_resolve(Unwrap(clients[c].client.dns_resolver), n)
                 = Ok(<<Unwrap(clients[c].client.dns_resolver).address>>)

\* C6's case: fallback "9.9.9.9", no override, and a hostname nobody
\* configured resolves to 9.9.9.9.
C6_Witness ==
    /\ last.op = "resolve"
    /\ HasFallback
    /\ Dns.fallback = Some(Lit9)
    /\ OverrideHosts(settings) = {}
    /\ last.name = "other.test"
    /\ last.addrs = <<[ip |-> <<9, 9, 9, 9>>, port |-> 1111]>>

Timeouts == Unwrap(settings.timeout_settings)

HasKeepAlive ==
    IsSome(settings.timeout_settings) /\ IsSome(Timeouts.keep_alive_timeout)

\* C3: where create_client succeeded on settings with a keep-alive
\* timeout, a zero duration left tcp_keepalive, http2_keep_alive_while_idle
\* and http2_keep_alive_timeout untouched, and every positive duration,
\* however short, set all three to it.
C3_KeepAliveZeroOrPositive ==
    (last.op = "create" /\ last.ok /\ HasKeepAlive) =>
        LET d == Unwrap(Timeouts.keep_alive_timeout)
            b == clients[1].client
        IN  IF d.secs = 0 /\ d.nanos = 0
            THEN /\ b.tcp_keepalive = None
                 /\ ~b.http2_keep_alive_while_idle
                 /\ b.http2_keep_alive_timeout = None
            ELSE /\ b.tcp_keepalive = Some(d)
                 /\ b.http2_keep_alive_while_idle
                 /\ b.http2_keep_alive_timeout = Some(d)

Tls == Unwrap(settings.tls_settings)

NoCertificateFields ==
    IsSome(settings.tls_settings) =>
        /\ Tls.trusted_root_certificates = <<>>
        /\ Tls.client_certificate = None

NoAddressFields ==
    IsSome(settings.dns_settings) =>
        /\ Dns.fallback = None
        /\ \A h \in OverrideHosts(settings) : Dns.overrides[h] = <<>>

DurationsNonNegative ==
    IsSome(settings.timeout_settings) =>
        \A d \in {Timeouts.timeout, Timeouts.connect_timeout,
                  Timeouts.keep_alive_timeout, Timeouts.keep_alive_ping} :
            IsSome(d) => Unwrap(d).secs >= 0

TlsBoundsOrdered ==
    IsSome(settings.tls_settings) =>
        ~(Tls.min_tls_version = Some("Tls1_3")
            /\ Tls.max_tls_version = Some("Tls1_2"))

HandleMatchesSettings ==
    /\ Len(clients) = 1
    /\ clients[1].http_version_pref = settings.http_version_pref
    /\ clients[1].throw_on_status_code = settings.throw_on_status_code

\* C5 as claimed: on settings without certificate and address fields,
\* whatever the durations, create_client returns Ok with a handle whose
\* version preference and status flag are those of the settings.
C5_NoCertNoAddressAccepted ==
    (last.op = "create" /\ NoCertificateFields /\ NoAddressFields) =>
        (last.ok /\ HandleMatchesSettings)

\* C5, amended: the same, for settings whose present durations are all
\* non-negative and whose TLS version bounds are not inverted.
C5_ValidSettingsAccepted ==
    (/\ last.op # "init"
     /\ NoCertificateFields
     /\ NoAddressFields
     /\ DurationsNonNegative
     /\ TlsBoundsOrdered) =>
        /\ last.op = "create" => last.ok
        /\ HandleMatchesSettings

\* C5's case: Http3, throw_on_status_code false, a proxy setting and
\* timeouts with a zero keep-alive timeout, accepted.
C5_Witness ==
    /\ last.op = "create"
    /\ last.ok
    /\ NoCertificateFields
    /\ NoAddressFields
    /\ settings.http_version_pref = "Http3"
    /\ ~settings.throw_on_status_code
    /\ IsSome(settings.proxy_settings)
    /\ HasKeepAlive
    /\ Timeouts.keep_alive_timeout = Some(DZero)
    /\ HandleMatchesSettings

\* Whether text holds the literal lit, character by character.
Contains(text, lit) ==
    \E k \in 0 .. Len(text) - Len(lit) :
        SubSeq(text, k + 1, k + Len(lit)) = lit

AddressFailures ==
    {i \in 1 .. Len(last.log) :
        ~last.log[i].ok /\ last.log[i].what \in {"fallback", "override"}}

\* C7: when an override address or the fallback address did not parse, the
\* error create_client returned holds that literal and the reason of the
\* parse failure.
C7_AddressErrorNamesLiteral ==
    (last.op = "create" /\ AddressFailures # {}) =>
        /\ ~last.ok
        /\ \E i \in AddressFailures : Contains(last.err, last.log[i].lit)
        /\ \E k \in 1 .. Len(last.err) :
              last.err[k] \in {AddrParseErrorDisplay, AddrParseErrorDebug}

VersionCalls == {"http1_only", "http2_prior_knowledge", "http3_prior_knowledge"}

DnsCalls == {"dns_resolver", "resolve_to_addrs"}

\* C8 as claimed: in every run of create_client nothing is applied to the
\* builder after the HTTP version forcing.
C8_VersionForcedLast ==
    last.op = "create" =>
        \A i \in 1 .. Len(last.calls) :
            last.calls[i] \in VersionCalls => i = Len(last.calls)

\* C8, amended: the version forcing comes after everything the proxy,
\* redirect, timeout and TLS groups apply and before everything the DNS
\* group applies.
C8_VersionForcedBeforeDns ==
    last.op = "create" =>
        \A i \in 1 .. Len(last.calls) :
            last.calls[i] \in VersionCalls =>
                /\ \A j \in 1 .. i - 1 :
                      last.calls[j] \notin DnsCalls \cup VersionCalls
                /\ \A j \in i + 1 .. Len(last.calls) :
                      last.calls[j] \in DnsCalls

\* C8's case: a root certificate was added, then HTTP/2 was forced, then the
\* fallback resolver was installed.
C8_Witness ==
    /\ last.op = "create"
    /\ \E i \in 1 .. Len(last.calls) :
         /\ last.calls[i] = "http2_prior_knowledge"
         /\ \E j \in 1 .. i - 1 : last.calls[j] = "add_root_certificate"
         /\ \E j \in i + 1 .. Len(last.calls) : last.calls[j] = "dns_resolver"

Failures == {i \in 1 .. Len(last.log) : ~last.log[i].ok}

FirstFailure == CHOOSE i \in Failures : \A j \in Failures : i <= j

\* The error the pipeline gives for the derived value of log entry e.
ErrorOf(e) ==
    CASE e.what = "override" -> invalid_ip_message(e.lit)
      [] e.what = "fallback" -> <<AddrParseErrorDebug>>
      [] e.what = "trusted_root_certificate" ->
            <<"Error adding trusted certificate: ", "InvalidCertificate">>
      [] e.what = "client_certificate" -> <<"InvalidIdentity">>
      [] OTHER -> <<OutOfRangeErrorDisplay>>

\* C9: when a derived value was invalid, create_client returned the error
\* of the first invalid value it met, and no RequestClient and no token
\* exist.
C9_FirstInvalidReported ==
    (last.op = "create" /\ Failures # {}) =>
        /\ ~last.ok
        /\ clients = <<>>
        /\ tokens = <<>>
        /\ last.err = ErrorOf(last.log[FirstFailure])

\* C10: where create_client succeeded on settings with a redirect setting,
\* NoRedirect installed the policy of no redirect and LimitedRedirects(n) the
\* policy limited to n, the usize handed over being the number n.
C10_RedirectLimitIsN ==
    (last.op = "create" /\ last.ok /\ IsSome(settings.redirect_settings)) =>
        LET r == Unwrap(settings.redirect_settings)
            p == Unwrap(clients[1].client.redirect)
        IN  IF r.kind = "NoRedirect" THEN p.kind = "none"
            ELSE /\ p.kind = "limited"
                 /\ r.n >= 0
                 /\ p.max = <<0, 0, r.n \div Limb, r.n % Limb>>

Handles == 1 .. Len(clients)

SameToken(a, b) == clients[a].cancel_token = clients[b].cancel_token

\* What C4 says of one step, told apart by the operation last' records.
C4_Step ==
    /\ Len(tokens') >= Len(tokens)
    /\ \A t \in 1 .. Len(tokens) : tokens[t] => tokens'[t]
    /\ last'.op = "clone" =>
         /\ clients'[Len(clients')].cancel_token
              = clients[last'.handle].cancel_token
         /\ tokens' = tokens
    /\ (last'.op = "create" /\ last'.ok) =>
         /\ Len(tokens') = Len(tokens) + 1
         /\ clients'[Len(clients')].cancel_token = Len(tokens')
         /\ ~tokens'[Len(tokens')]
         /\ \A h \in Handles : clients[h].cancel_token # Len(tokens')
    /\ (last'.op = "create" /\ ~last'.ok) =>
         /\ tokens' = tokens
         /\ clients' = clients
    /\ last'.op = "cancel" =>
         /\ \A h \in Handles :
              is_cancelled(tokens', clients[h])
                = IF SameToken(h, last'.handle) THEN TRUE
                  ELSE is_cancelled(tokens, clients[h])
         /\ is_cancelled(tokens, clients[last'.handle]) => tokens' = tokens

\* C4: every successful create_client makes one new live token that no
\* other handle holds; a clone holds the token of the handle it was cloned
\* from; a cancel through a handle is seen through every handle with that
\* token and through no other; a cancelled token stays cancelled and a
\* further cancel changes nothing.
C4_TokenSharedAndMonotone == [][C4_Step]_vars

\* C4's case: cancellation requested through one handle is observed through
\* its clone, while the handle of another create_client call is live.
C4_Witness ==
    /\ last.op = "cancel"
    /\ \E a, b, c \in Handles :
         /\ a # b
         /\ last.handle = a
         /\ SameToken(a, b)
         /\ ~SameToken(a, c)
         /\ is_cancelled(tokens, clients[b])
         /\ ~is_cancelled(tokens, clients[c])

====
